---- MODULE Spec2Model ----
(***************************************************************************)
(* MeanderFlow: the geomorphology pipeline (generateMeander,               *)
(* calculateHydraulics, assessEcologicalHealth) as a state machine.        *)
(*                                                                         *)
(* Numbers.  A JavaScript number is modelled as a pair <<n, d>>: the       *)
(* rational n/d when d > 0, and the IEEE specials when d = 0:              *)
(* <<1,0>> = +Infinity, <<-1,0>> = -Infinity, <<0,0>> = NaN.  Arithmetic    *)
(* follows IEEE rules on the specials (x/0, 0/0, Inf-Inf, NaN compares     *)
(* false).  Like a double, a value keeps a bounded precision: a result     *)
(* whose denominator exceeds the kept precision is rounded towards zero to *)
(* the nearest fraction within it.  As with IEEE rounding, this rounding   *)
(* is monotone and leaves representable values unchanged.                  *)
(*                                                                         *)
(* Geometry.  Positions are planar <<x, y>> pairs in metres (x east,       *)
(* y north) instead of degrees on the sphere; a bearing is carried as the  *)
(* unit vector it points along.  The @turf/turf calls of the source are    *)
(* modelled by the operators of the same name.                             *)
(*                                                                         *)
(* Specifications.  Spec: one pass of the pipeline, or a single call, on   *)
(* arguments of the caller.  SpecRepeat: a caller that invokes the         *)
(* functions several times and keeps what each invocation was given and    *)
(* returned.  SpecApp: the App component, its params state, its handlers,  *)
(* Controls' handleChange and the useMemo cells of a render, with object   *)
(* identities as React compares them.                                      *)
(***************************************************************************)
EXTENDS Integers, Sequences, FiniteSets, TLC

\* ------------------------------------------------------------- bounds
\* significant precision kept by a number (denominators above it are rounded)
MaxDen == 1024
\* largest numerator kept by a number that has a fractional part
MaxNum == 32768
\* samples turf.bezierSpline takes per segment of the valley line
SplineSamples == 2
\* resolution of the fractional powers (Math.pow): results are multiples of 1/PowRes
PowRes == 16
\* resolution of the square roots: results are multiples of 1/SqrtRes
SqrtRes == 64

\* const x = e; body  -- a local constant, evaluated once
Let(v, F(_)) == F(v)

\* ------------------------------------------------------------- numbers
NaN == <<0, 0>>
PosInf == <<1, 0>>
NegInf == <<-1, 0>>
Zero == <<0, 1>>
One == <<1, 1>>

AbsInt(a) == IF a < 0 THEN -a ELSE a
SignInt(a) == IF a > 0 THEN 1 ELSE IF a < 0 THEN -1 ELSE 0

RECURSIVE GCD(_, _)
GCD(a, b) == IF b = 0 THEN a ELSE GCD(b, a % b)

\* The largest fraction with a denominator up to bound that is <= n/d, for
\* n >= 0 and d > bound, by the continued fraction of n/d: p1/q1 is the last
\* convergent, p0/q0 the one before; below1 tells that p1/q1 <= n/d.
RECURSIVE FareyB(_, _, _, _, _, _, _, _)
FareyB(bound, n, d, p0, q0, p1, q1, below1) ==
  IF q1 > 0 /\ n \div d > (bound - q0) \div q1
  THEN IF below1 THEN <<p1, q1>>
       ELSE <<p0 + ((bound - q0) \div q1) * p1, q0 + ((bound - q0) \div q1) * q1>>
  ELSE FareyB(bound, d, n % d, p1, q1, p0 + (n \div d) * p1, q0 + (n \div d) * q1, ~below1)

\* the denominators kept by a number whose integer part is v >= 0: up to MaxDen,
\* and fewer once the numerator would pass MaxNum (a large double has fewer
\* fractional digits)
DenBound(v) ==
  IF v <= MaxNum \div MaxDen THEN MaxDen
  ELSE IF v >= MaxNum THEN 1
  ELSE MaxNum \div v

\* rounding of the reduced fraction r to the kept precision, towards zero
SignedPair(s, r) == <<s * r[1], r[2]>>
ShrinkTo(bound, r) ==
  IF r[2] > bound
  THEN SignedPair(SignInt(r[1]), FareyB(bound, AbsInt(r[1]), r[2], 0, 1, 1, 0, FALSE))
  ELSE r
Shrink(r) == ShrinkTo(DenBound(AbsInt(r[1]) \div r[2]), r)

DivBoth(n, d, k) == <<n \div k, d \div k>>
Reduce(n, d) == DivBoth(n, d, GCD(AbsInt(n), d))

\* the number n/d (d may be 0 or negative), reduced and rounded
Norm(n, d) ==
  IF d = 0 THEN <<SignInt(n), 0>>
  ELSE Shrink(Reduce(SignInt(d) * n, AbsInt(d)))

Num(k) == <<k, 1>>
Frac(n, d) == Norm(n, d)

IsNaN(a) == a[2] = 0 /\ a[1] = 0
IsInf(a) == a[2] = 0 /\ a[1] # 0
IsFinite(a) == a[2] > 0

Neg(a) == <<-a[1], a[2]>>
\* a * b for finite a, b, cancelling the common factors h1, h2 first
MulBy(a, b, h1, h2) == Norm((a[1] \div h1) * (b[1] \div h2), (a[2] \div h2) * (b[2] \div h1))
Mul(a, b) ==
  IF a[2] = 0 \/ b[2] = 0 THEN <<SignInt(a[1]) * SignInt(b[1]), 0>>
  ELSE MulBy(a, b, GCD(AbsInt(a[1]), b[2]), GCD(AbsInt(b[1]), a[2]))
Recip(a) ==
  IF a[1] > 0 THEN <<a[2], a[1]>>
  ELSE IF a[1] < 0 THEN <<-a[2], -a[1]>>
  ELSE IF a[2] = 0 THEN NaN ELSE PosInf
Div(a, b) == Mul(a, Recip(b))
\* a + b for finite a, b over the least common denominator (k = gcd of both)
AddBy(a, b, k) == Norm(a[1] * (b[2] \div k) + b[1] * (a[2] \div k), a[2] * (b[2] \div k))
Add(a, b) ==
  IF a[2] = 0 /\ b[2] = 0 THEN (IF a = b THEN a ELSE NaN)
  ELSE IF a[2] = 0 THEN a
  ELSE IF b[2] = 0 THEN b
  ELSE AddBy(a, b, GCD(a[2], b[2]))
Sub(a, b) == Add(a, Neg(b))

\* comparisons: any comparison with NaN is false
Lt(a, b) ==
  IF IsNaN(a) \/ IsNaN(b) THEN FALSE
  ELSE IF a[2] = 0 \/ b[2] = 0
       THEN a # b /\ (a = NegInf \/ b = PosInf)
       ELSE a[1] * b[2] < b[1] * a[2]
Eq(a, b) == ~IsNaN(a) /\ ~IsNaN(b) /\ a = b
Gt(a, b) == Lt(b, a)
Le(a, b) == Lt(a, b) \/ Eq(a, b)
Ge(a, b) == Le(b, a)

\* Math.max, Math.min, Math.abs, Math.ceil, Math.floor
MathMax(a, b) == IF IsNaN(a) \/ IsNaN(b) THEN NaN ELSE IF Lt(a, b) THEN b ELSE a
MathMin(a, b) == IF IsNaN(a) \/ IsNaN(b) THEN NaN ELSE IF Lt(b, a) THEN b ELSE a
MathAbs(a) == <<AbsInt(a[1]), a[2]>>
MathFloor(a) == IF a[2] = 0 THEN a ELSE <<a[1] \div a[2], 1>>
MathCeil(a) == IF a[2] = 0 THEN a ELSE <<-((-a[1]) \div a[2]), 1>>

\* floor(x * k) for a finite x >= 0
ScaleFloor(x, k) == (x[1] \div x[2]) * k + ((x[1] % x[2]) * k) \div x[2]

RECURSIVE ISqrtB(_, _, _)
ISqrtB(v, lo, hi) ==
  IF lo >= hi THEN lo
  ELSE IF ((lo + hi + 1) \div 2) * ((lo + hi + 1) \div 2) <= v
       THEN ISqrtB(v, (lo + hi + 1) \div 2, hi)
       ELSE ISqrtB(v, lo, ((lo + hi + 1) \div 2) - 1)
\* the integer square root of v >= 0
ISqrt(v) == ISqrtB(v, 0, IF v < 46340 THEN v ELSE 46340)

\* Math.sqrt / Math.pow(x, 0.5), rounded down to a multiple of 1/SqrtRes
MathSqrt(x) ==
  IF IsNaN(x) \/ x[1] < 0 THEN NaN
  ELSE IF x[2] = 0 THEN PosInf
  ELSE Norm(ISqrt(ScaleFloor(x, SqrtRes * SqrtRes)), SqrtRes)

\* the largest r in lo..hi with r^e * a <= b  (e = 3 or 5; monotone in r)
IntPow(m, e) == IF e = 3 THEN m * m * m ELSE m * m * m * m * m
RECURSIVE RootB(_, _, _, _, _)
RootB(e, a, b, lo, hi) ==
  IF lo >= hi THEN lo
  ELSE IF IntPow((lo + hi + 1) \div 2, e) * a <= b
       THEN RootB(e, a, b, (lo + hi + 1) \div 2, hi)
       ELSE RootB(e, a, b, lo, ((lo + hi + 1) \div 2) - 1)

\* Math.PI is a double just below pi, so Math.sin(Math.PI) is not 0 but
\* 1.2246e-16.  PiDeficit stands for that value: it lies below the precision the
\* model keeps, so it vanishes from products and sums, and only Math.pow(x, 0.2)
\* makes it visible again.
PiDeficit == <<1, 1048576>>

\* Math.pow(Math.sin(Math.PI), 0.2): (1.2246e-16)^0.2 = 6.57e-4, the least value
\* the fifth root takes on a positive double
PowFloor == <<1, 1522>>

\* Math.pow(x, 0.2) for 0 <= x <= 1, rounded down to a multiple of 1/PowRes
Pow02Unit(x) ==
  IF x[1] = 0 THEN Zero
  ELSE IF Le(x, PiDeficit) \/ ScaleFloor(x, 1024) = 0 THEN PowFloor
  ELSE Norm(RootB(5, 1024, ScaleFloor(x, 1024) * IntPow(PowRes, 5), 0, PowRes), PowRes)
\* Math.pow(x, 0.2)
Pow02(x) ==
  IF IsNaN(x) \/ x[1] < 0 THEN NaN
  ELSE IF x[2] = 0 THEN PosInf
  ELSE IF Le(x, One) THEN Pow02Unit(x)
  ELSE Recip(Pow02Unit(Recip(x)))

\* Math.pow(x, 0.5)
PowHalf(x) == IF x = NegInf THEN PosInf ELSE MathSqrt(x)

\* Math.pow(x, 2 / 3), rounded down to a multiple of 1/PowRes (x below 8)
Pow23(x) ==
  IF IsNaN(x) THEN NaN
  ELSE IF x[2] = 0 THEN PosInf
  ELSE IF x[1] < 0 THEN NaN
  ELSE Norm(RootB(3, 4096, ScaleFloor(x, 64) * ScaleFloor(x, 64) * IntPow(PowRes, 3),
                  0, 4 * PowRes), PowRes)

\* Bhaskara's rational approximation of sin(pi * x) on 0 <= x <= 1, q = x (1 - x)
BhaskaraOf(q) == Div(Mul(Num(16), q), Sub(Num(5), Mul(Num(4), q)))
Bhaskara(x) == BhaskaraOf(Mul(x, Sub(One, x)))

\* Math.sin(x * Math.PI) for x >= 0, xm = x mod 2: the angle is carried in units
\* of pi
SinPiMod(x, xm) ==
  IF xm = Zero THEN (IF x = Zero THEN Zero ELSE Neg(PiDeficit))
  ELSE IF xm = One THEN PiDeficit
  ELSE IF Lt(xm, One) THEN Bhaskara(xm)
  ELSE Neg(Bhaskara(Sub(xm, One)))
SinPiPos(x) == SinPiMod(x, Sub(x, Mul(Num(2), MathFloor(Div(x, Num(2))))))
SinPi(x) ==
  IF x[2] = 0 THEN NaN
  ELSE IF x[1] < 0 THEN Neg(SinPiPos(Neg(x)))
  ELSE SinPiPos(x)

\* Math.PI, as the rational 355/113
MathPI == <<355, 113>>

\* ------------------------------------------------------------- turf
\* A call either returns a value or throws.
Ok(v) == [ok |-> TRUE, val |-> v, error |-> ""]
Throw(msg) == [ok |-> FALSE, val |-> <<>>, error |-> msg]

\* helpers.isNumber: !isNaN(num)
isNumber(a) == ~IsNaN(a)

\* turf.point: a position must hold numbers
point(coordinates) ==
  IF ~isNumber(coordinates[1]) \/ ~isNumber(coordinates[2])
  THEN Throw("coordinates must contain numbers")
  ELSE Ok(coordinates)

\* turf.lineString: a LineString feature needs at least two positions
lineString(coordinates) ==
  IF Len(coordinates) < 2
  THEN Throw("coordinates must be an array of two or more positions")
  ELSE Ok(coordinates)

\* turf.distance, on the plane: sqrt(dx^2 + dy^2), never below |dx| or |dy|
hypot(dx, dy) ==
  IF dy = Zero THEN dx
  ELSE IF dx = Zero THEN dy
  ELSE MathMax(MathMax(dx, dy), MathSqrt(Add(Mul(dx, dx), Mul(dy, dy))))
distance(p, q) == hypot(MathAbs(Sub(q[1], p[1])), MathAbs(Sub(q[2], p[2])))

\* turf.length: the sum of the segment lengths; 0 for fewer than two positions
RECURSIVE lengthFrom(_, _)
lengthFrom(coords, k) ==
  IF k >= Len(coords) THEN Zero
  ELSE Add(distance(coords[k], coords[k + 1]), lengthFrom(coords, k + 1))
length(coords) == lengthFrom(coords, 1)

\* turf.bearing, as the unit vector from p towards q; equal positions give
\* bearing 0 (atan2(0, 0) = 0), due north
unitVector(dx, dy, len) ==
  IF len = Zero THEN <<Zero, One>>
  ELSE <<Div(dx, len), Div(dy, len)>>
bearing(p, q) == unitVector(Sub(q[1], p[1]), Sub(q[2], p[2]), distance(p, q))

\* bearing + 90 and bearing + 270 (= bearing + 90 + 180), clockwise from north
Plus90(b) == <<b[2], Neg(b[1])>>
Plus180(b) == <<Neg(b[1]), Neg(b[2])>>

\* turf.destination: the position dist metres from origin along bearing b,
\* returned through turf.point
destination(origin, dist, b) ==
  point(<<Add(origin[1], Mul(dist, b[1])), Add(origin[2], Mul(dist, b[2]))>>)

\* turf.along: the position dist metres along the line.  i is the loop index
\* (1-based here), travelled the length walked so far.
alongBack(coords, i, overshot) ==
  IF overshot = Zero \/ IsNaN(overshot) THEN point(coords[i])
  ELSE IF i = 1 THEN Throw("coord is required")
  ELSE destination(coords[i], overshot, Plus180(bearing(coords[i], coords[i - 1])))
RECURSIVE alongFrom(_, _, _, _)
alongFrom(coords, dist, i, travelled) ==
  IF i > Len(coords) THEN point(coords[Len(coords)])
  ELSE IF Ge(dist, travelled) /\ i = Len(coords) THEN point(coords[Len(coords)])
  ELSE IF Ge(travelled, dist) THEN alongBack(coords, i, Sub(dist, travelled))
  ELSE IF i = Len(coords) THEN Throw("coord is required")
  ELSE alongFrom(coords, dist, i + 1, Add(travelled, distance(coords[i], coords[i + 1])))
along(coords, dist) == alongFrom(coords, dist, 1, Zero)

\* ---- turf.bezierSpline
sharpness == <<17, 20>>

Mid(p, q) == <<Div(Add(p[1], q[1]), Num(2)), Div(Add(p[2], q[2]), Num(2))>>
\* Spline.centers: the midpoints of consecutive points
centers(pts) == [k \in 1..(Len(pts) - 1) |-> Mid(pts[k], pts[k + 1])]
\* one coordinate of a control point: (1 - sharpness) * p + sharpness * (c + d)
ctlCoord(p, c, d) == Add(Mul(Sub(One, sharpness), p), Mul(sharpness, Add(c, d)))
\* the pair of control points of the inner point p between the centers c0 and
\* c1, d = p - (c0 + c1) / 2
controlPair(p, c0, c1, d) ==
  << <<ctlCoord(p[1], c0[1], d[1]), ctlCoord(p[2], c0[2], d[2])>>,
     <<ctlCoord(p[1], c1[1], d[1]), ctlCoord(p[2], c1[2], d[2])>> >>
controlAt(p, c0, c1, m) == controlPair(p, c0, c1, <<Sub(p[1], m[1]), Sub(p[2], m[2])>>)
controlsOf(pts, c) ==
  [k \in 1..Len(pts) |->
     IF k = 1 \/ k = Len(pts) THEN <<pts[k], pts[k]>>
     ELSE controlAt(pts[k], c[k - 1], c[k], Mid(c[k - 1], c[k]))]
\* Spline.controls: a pair of control points per point of the line
controls(pts) == controlsOf(pts, centers(pts))
\* the cubic Bezier basis, one coordinate; u = 1 - t
bezierBasis(t, u, p1, c1, c2, p2) ==
  Add(Add(Mul(p2, Mul(Mul(t, t), t)), Mul(c2, Mul(Num(3), Mul(Mul(t, t), u)))),
      Add(Mul(c1, Mul(Num(3), Mul(t, Mul(u, u)))), Mul(p1, Mul(Mul(u, u), u))))
bezier1(t, p1, c1, c2, p2) == bezierBasis(t, Sub(One, t), p1, c1, c2, p2)
bezier(t, p1, c1, c2, p2) ==
  <<bezier1(t, p1[1], c1[1], c2[1], p2[1]), bezier1(t, p1[2], c1[2], c2[2], p2[2])>>
\* Spline.pos: the curve on segment k at local time j / SplineSamples
pos(pts, ctl, k, j) ==
  bezier(Frac(j, SplineSamples), pts[k], ctl[k][2], ctl[k + 1][1], pts[k + 1])
\* the curve sampled at equal time steps, segment after segment, then its end
splineOf(pts, ctl) ==
  lineString([s \in 1..((Len(pts) - 1) * SplineSamples + 1) |->
    IF s = (Len(pts) - 1) * SplineSamples + 1 THEN pts[Len(pts)]
    ELSE pos(pts, ctl, ((s - 1) \div SplineSamples) + 1, (s - 1) % SplineSamples)])
bezierSpline(pts) == splineOf(pts, controls(pts))

\* ------------------------------------------------------------- types
\* GeoPoint {lat, lng}; the model's metres: lng runs east (x), lat north (y)
GeoPoint(x, y) == [lat |-> Num(y), lng |-> Num(x)]
\* p => [p.lng, p.lat]
toCoords(valleyLine) == [k \in 1..Len(valleyLine) |-> <<valleyLine[k].lng, valleyLine[k].lat>>]

\* StreamHealth
DEGRADED == "Degraded"
RECOVERING == "Recovering"
STABLE == "Stable"
HIGH_RISK == "High Risk (Avulsion)"

\* App's INITIAL_PARAMS, its valley line scaled to the model's metres: three
\* collinear, equally spaced points
INITIAL_PARAMS ==
  [valleySlope |-> Frac(5, 2),
   bankfullWidth |-> Num(8),
   bankfullDepth |-> Frac(6, 5),
   manningsN |-> Frac(45, 1000),
   sinuosityTarget |-> One,
   wavelength |-> Num(100),
   amplitude |-> Num(20),
   valleyLine |-> <<GeoPoint(0, 0), GeoPoint(4, 3), GeoPoint(8, 6)>>]

VARIABLES
  pc,             \* where the harness is: idle, inside generateMeander, after a call
  params,         \* the StreamParams of the current calls
  pointsPerWave,  \* generateMeander's fourth argument
  smoothedValley, \* generateMeander: the coordinates of the smoothed valley axis
  valleyLength,   \* generateMeander: turf.length(smoothedValley)
  totalSteps,     \* generateMeander: the loop bound
  i,              \* generateMeander: the loop counter
  loc,            \* generateMeander: the locals of the last loop iteration
  meanderPoints,  \* generateMeander: the points pushed so far
  meanderGeo,     \* the result of generateMeander / the path given to calculateHydraulics
  pipeline,       \* TRUE when meanderGeo is generateMeander's result for params
  metrics,        \* the result of calculateHydraulics / the metrics given to the assessment
  ecoHealth,      \* the result of assessEcologicalHealth
  calls,          \* how many invocations a caller that calls again has started
  call,           \* that caller's last invocation: the function and its arguments
  history,        \* that caller's earlier invocations: function, arguments, result
  paramsState,    \* App: the useState cell of params, with the updates queued so far applied
  rendered,       \* App: the params of the last render, which the handlers and Controls hold
  memo,           \* App: the useMemo cells meanderGeo, metrics and ecoHealth
  edits,          \* App: how many handlers have been invoked
  sinceRender,    \* App: the handlers invoked since the last render
  lastRender      \* App: what the last render started from

\* the state of the calls of the three functions
calling == <<pc, params, pointsPerWave, smoothedValley, valleyLength, totalSteps, i, loc,
             meanderPoints, meanderGeo, pipeline, metrics, ecoHealth>>
\* the bookkeeping of a caller that invokes the functions more than once
harness == <<calls, call, history>>
\* the state of the App component
app == <<paramsState, rendered, memo, edits, sinceRender, lastRender>>
vars == <<calling, harness, app>>

None == Throw("none")
NoCall == [fn |-> "none", args |-> <<>>]
NoLoc == [fraction |-> Zero, distanceAlongValley |-> Zero, centerPoint |-> None,
          dampening |-> Zero, currentAmplitude |-> Zero, offset |-> Zero,
          meanderPoint |-> None]

\* ------------------------------------------------------------- App: state and memo cells
\* An object of the App is a value with the identity React compares by Object.is:
\* ref is the identity of the params object, lineRef that of its valleyLine array.
\* useState(INITIAL_PARAMS)
initialState == [value |-> INITIAL_PARAMS, ref |-> 0, lineRef |-> 0]
\* The results of the three functions are kept as the applications they are of:
\* which function on which arguments.
\* generateMeander(params.valleyLine, params.amplitude, params.wavelength)
generateMeanderOf(p) ==
  [fn |-> "generateMeander", valleyPoints |-> p.valleyLine, amplitude |-> p.amplitude,
   wavelength |-> p.wavelength]
\* calculateHydraulics(params, meanderGeo)
calculateHydraulicsOf(p, geo) == [fn |-> "calculateHydraulics", params |-> p, meanderGeo |-> geo]
\* assessEcologicalHealth(metrics, params)
assessEcologicalHealthOf(m, p) == [fn |-> "assessEcologicalHealth", metrics |-> m, params |-> p]
\* a dependency array that names the valley line only
meanderDepsLineOnly(st) == <<st.lineRef>>
\* [params.valleyLine, params.amplitude, params.wavelength]
meanderDeps(st) == <<st.lineRef, st.value.amplitude, st.value.wavelength>>
\* [params, meanderGeo]
metricsDeps(st, geo) == <<st.ref, geo.ref>>
\* [metrics, params]
ecoHealthDeps(met, st) == <<met.ref, st.ref>>
\* a memo cell before the first render
NoMemo == [deps |-> <<>>, value |-> <<>>, ref |-> -1]
\* useMemo(() => value, deps): the cell is kept when every dependency is the same
\* as at the render that filled it, and filled anew otherwise
useMemo(cell, deps, value, ref) ==
  IF cell.deps = deps THEN cell ELSE [deps |-> deps, value |-> value, ref |-> ref]
\* the three useMemo calls of one render of App on the state st
renderMetrics(cells, st, geo) ==
  Let(useMemo(cells.metrics, metricsDeps(st, geo),
              calculateHydraulicsOf(st.value, geo.value), st.ref), LAMBDA met :
    [meanderGeo |-> geo,
     metrics |-> met,
     ecoHealth |-> useMemo(cells.ecoHealth, ecoHealthDeps(met, st),
                           assessEcologicalHealthOf(met.value, st.value), st.ref)])
renderMemo(cells, st) ==
  renderMetrics(cells, st,
                useMemo(cells.meanderGeo, meanderDeps(st), generateMeanderOf(st.value), st.ref))

Init ==
  /\ pc = "idle"
  /\ params = INITIAL_PARAMS
  /\ pointsPerWave = 20
  /\ smoothedValley = <<>>
  /\ valleyLength = Zero
  /\ totalSteps = Zero
  /\ i = 0
  /\ loc = NoLoc
  /\ meanderPoints = <<>>
  /\ meanderGeo = None
  /\ pipeline = FALSE
  /\ metrics = None
  /\ ecoHealth = None
  /\ calls = 0
  /\ call = NoCall
  /\ history = <<>>
  /\ paramsState = initialState
  /\ rendered = initialState
  /\ memo = renderMemo([meanderGeo |-> NoMemo, metrics |-> NoMemo, ecoHealth |-> NoMemo],
                       initialState)
  /\ edits = 0
  /\ sinceRender = <<>>
  /\ lastRender = [previous |-> initialState, meanderGeoRef |-> 0]

\* ------------------------------------------------------------- generateMeander
\* the wavelength taken as given, without the floor of 10
rawWavelength(wavelength) == wavelength
\* const safeWavelength = Math.max(wavelength, 10)
safeWavelength(wavelength) == MathMax(wavelength, Num(10))
\* const numWaves = valleyLength / safeWavelength
numWaves(vLen, wavelength) == Div(vLen, safeWavelength(wavelength))
\* const totalSteps = Math.ceil(numWaves * pointsPerWave)
totalStepsOf(vLen, wavelength, ppw) == MathCeil(Mul(numWaves(vLen, wavelength), Num(ppw)))

\* const fraction = i / totalSteps
fractionOf(k, steps) == Div(Num(k), steps)
\* const dampening = Math.sin(fraction * Math.PI)
dampeningOf(fraction) == SinPi(fraction)
\* const currentAmplitude = amplitude * Math.pow(dampening, 0.2)
currentAmplitudeOf(amplitude, dampening) == Mul(amplitude, Pow02(dampening))
\* const offset = currentAmplitude * Math.sin((2 * Math.PI / safeWavelength) * distanceAlongValley)
offsetOf(currentAmplitude, wavelength, dist) ==
  Mul(currentAmplitude, SinPi(Mul(Div(Num(2), safeWavelength(wavelength)), dist)))
\* turf.destination(centerPoint, Math.abs(offset),
\*                  offset > 0 ? offsetBearing : offsetBearing + 180)
offsetPoint(center, offset, offsetBearing) ==
  destination(center, MathAbs(offset),
              IF Gt(offset, Zero) THEN offsetBearing ELSE Plus180(offsetBearing))
\* the point an iteration pushes, or the exception that leaves the function
meanderPointOf(centerPoint, lookAheadPoint, offset) ==
  IF ~centerPoint.ok THEN centerPoint
  ELSE IF ~lookAheadPoint.ok THEN lookAheadPoint
  ELSE offsetPoint(centerPoint.val, offset,
                   Plus90(bearing(centerPoint.val, lookAheadPoint.val)))

\* the body of the loop for counter k: the locals it computes
loopBody(k) ==
  Let(fractionOf(k, totalSteps), LAMBDA fraction :
  Let(Mul(fraction, valleyLength), LAMBDA distanceAlongValley :
  Let(along(smoothedValley, distanceAlongValley), LAMBDA centerPoint :
  Let(MathMin(Add(distanceAlongValley, One), valleyLength), LAMBDA lookAheadDist :
  Let(dampeningOf(fraction), LAMBDA dampening :
  Let(currentAmplitudeOf(params.amplitude, dampening), LAMBDA currentAmplitude :
  Let(offsetOf(currentAmplitude, params.wavelength, distanceAlongValley), LAMBDA offset :
    [fraction |-> fraction,
     distanceAlongValley |-> distanceAlongValley,
     centerPoint |-> centerPoint,
     dampening |-> dampening,
     currentAmplitude |-> currentAmplitude,
     offset |-> offset,
     meanderPoint |-> meanderPointOf(centerPoint, along(smoothedValley, lookAheadDist),
                                     offset)])))))))

\* ------------------------------------------------------------- calculateHydraulics
\* the length ratio without the floor of 1
lengthRatio(vLen, channelLength) ==
  IF Gt(vLen, Zero) THEN Div(channelLength, vLen) ELSE One
\* the index kept in a variable that outlives the call, and reused when set
sinuosityIndexKept(vLen, channelLength) ==
  IF metrics.ok THEN metrics.val.sinuosityIndex
  ELSE IF Gt(vLen, Zero) THEN MathMax(One, Div(channelLength, vLen)) ELSE One
\* const si = valleyLength > 0 ? Math.max(1, channelLength / valleyLength) : 1
sinuosityIndex(vLen, channelLength) ==
  IF Gt(vLen, Zero) THEN MathMax(One, Div(channelLength, vLen)) ELSE One
\* the valley slope multiplied, not divided, by the sinuosity
steepenedSlope(valleySlopeDecimal, si) ==
  IF Gt(si, Zero) THEN Mul(valleySlopeDecimal, si) ELSE valleySlopeDecimal
\* const channelSlopeDecimal = si > 0 ? valleySlopeDecimal / si : valleySlopeDecimal
channelSlope(valleySlopeDecimal, si) ==
  IF Gt(si, Zero) THEN Div(valleySlopeDecimal, si) ELSE valleySlopeDecimal
\* const hydraulicRadius = (w * d) / (w + 2 * d)
hydraulicRadiusOf(w, d) == Div(Mul(w, d), Add(w, Mul(Num(2), d)))
\* (1 / params.manningsN) * Math.pow(hydraulicRadius, 2 / 3) * Math.pow(slope, 0.5)
calculateVelocity(manningsN, hydraulicRadius, slope) ==
  Mul(Mul(Div(One, manningsN), Pow23(hydraulicRadius)), PowHalf(slope))
rho == 1000
g == <<981, 100>>
\* const shearStress = rho * g * hydraulicRadius * channelSlopeDecimal
shearStressOf(hydraulicRadius, slope) == Mul(Mul(Mul(Num(rho), g), hydraulicRadius), slope)
\* const streamPower = rho * g * q * channelSlopeDecimal, q = vNew * area, area = w * d
streamPowerOf(vNew, w, d, slope) == Mul(Mul(Mul(Num(rho), g), Mul(vNew, Mul(w, d))), slope)
\* params.amplitude > 0 ? wavelength^2 / (4 * PI^2 * amplitude) : 0
radiusOfCurvatureOf(amplitude, wavelength) ==
  IF Gt(amplitude, Zero)
  THEN Div(Mul(wavelength, wavelength), Mul(Mul(Num(4), Mul(MathPI, MathPI)), amplitude))
  ELSE Zero

\* the body of calculateHydraulics once the valley line is built
hydraulicsOf(p, valleyCoords, meanderCoords) ==
  Let(length(valleyCoords), LAMBDA vLen :
  Let(length(meanderCoords), LAMBDA channelLength :
  Let(sinuosityIndex(vLen, channelLength), LAMBDA si :
  Let(Div(p.valleySlope, Num(100)), LAMBDA valleySlopeDecimal :
  Let(channelSlope(valleySlopeDecimal, si), LAMBDA channelSlopeDecimal :
  Let(hydraulicRadiusOf(p.bankfullWidth, p.bankfullDepth), LAMBDA hydraulicRadius :
  Let(calculateVelocity(p.manningsN, hydraulicRadius, channelSlopeDecimal), LAMBDA vNew :
    [originalSlope |-> valleySlopeDecimal,
     newSlope |-> channelSlopeDecimal,
     sinuosityIndex |-> si,
     originalVelocity |-> calculateVelocity(p.manningsN, hydraulicRadius, valleySlopeDecimal),
     newVelocity |-> vNew,
     shearStress |-> shearStressOf(hydraulicRadius, channelSlopeDecimal),
     streamPower |-> streamPowerOf(vNew, p.bankfullWidth, p.bankfullDepth,
                                   channelSlopeDecimal),
     channelLength |-> channelLength,
     valleyLength |-> vLen,
     radiusOfCurvature |-> radiusOfCurvatureOf(p.amplitude, p.wavelength)])))))))

\* calculateHydraulics(params, meanderGeo): the HydraulicMetrics, or the
\* exception of turf.lineString on the valley line
calculateHydraulics(p, meanderCoords) ==
  Let(lineString(toCoords(p.valleyLine)), LAMBDA valleyLine :
    IF ~valleyLine.ok THEN valleyLine
    ELSE Ok(hydraulicsOf(p, valleyLine.val, meanderCoords)))

\* ------------------------------------------------------------- assessEcologicalHealth
\* the curvature ratio formed by dividing whatever the width is
rcRatioUnguarded(m, p) == Div(m.radiusOfCurvature, p.bankfullWidth)
\* const rcRatio = params.bankfullWidth > 0 ? metrics.radiusOfCurvature / params.bankfullWidth : 10
rcRatioOf(m, p) ==
  IF Gt(p.bankfullWidth, Zero) THEN Div(m.radiusOfCurvature, p.bankfullWidth) ELSE Num(10)
\* the health chain with the straightened-channel rule tried first
healthDegradedFirst(m, p) ==
  IF Lt(m.sinuosityIndex, Frac(12, 10))
  THEN [health |-> DEGRADED, warnings |-> <<"Channel is straightened. Low habitat diversity.">>]
  ELSE IF Lt(rcRatioOf(m, p), Num(2)) /\ Gt(m.sinuosityIndex, Frac(105, 100))
  THEN [health |-> HIGH_RISK, warnings |-> <<"CRITICAL: Radius of Curvature is too tight for width">>]
  ELSE IF Gt(m.sinuosityIndex, Frac(12, 10)) /\ Lt(m.sinuosityIndex, Frac(15, 10))
  THEN [health |-> RECOVERING, warnings |-> <<>>]
  ELSE [health |-> STABLE, warnings |-> <<>>]
\* the health chain with the Recovering band closed at 1.2 and 1.5
healthClosedBand(m, p) ==
  IF Lt(rcRatioOf(m, p), Num(2)) /\ Gt(m.sinuosityIndex, Frac(105, 100))
  THEN [health |-> HIGH_RISK, warnings |-> <<"CRITICAL: Radius of Curvature is too tight for width">>]
  ELSE IF Lt(m.sinuosityIndex, Frac(12, 10))
  THEN [health |-> DEGRADED, warnings |-> <<"Channel is straightened. Low habitat diversity.">>]
  ELSE IF Ge(m.sinuosityIndex, Frac(12, 10)) /\ Le(m.sinuosityIndex, Frac(15, 10))
  THEN [health |-> RECOVERING, warnings |-> <<>>]
  ELSE [health |-> STABLE, warnings |-> <<>>]
\* the health chain as independent tests, each pushing its own warning
healthEveryWarning(m, p) ==
  IF Lt(rcRatioOf(m, p), Num(2)) /\ Gt(m.sinuosityIndex, Frac(105, 100))
  THEN [health |-> HIGH_RISK,
        warnings |-> IF Lt(m.sinuosityIndex, Frac(12, 10))
                     THEN <<"CRITICAL: Radius of Curvature is too tight for width",
                            "Channel is straightened. Low habitat diversity.">>
                     ELSE <<"CRITICAL: Radius of Curvature is too tight for width">>]
  ELSE IF Lt(m.sinuosityIndex, Frac(12, 10))
  THEN [health |-> DEGRADED, warnings |-> <<"Channel is straightened. Low habitat diversity.">>]
  ELSE IF Gt(m.sinuosityIndex, Frac(12, 10)) /\ Lt(m.sinuosityIndex, Frac(15, 10))
  THEN [health |-> RECOVERING, warnings |-> <<>>]
  ELSE [health |-> STABLE, warnings |-> <<>>]
\* the if / else-if chain that sets health and pushes the warning
healthOf(m, p) ==
  IF Lt(rcRatioOf(m, p), Num(2)) /\ Gt(m.sinuosityIndex, Frac(105, 100))
  THEN [health |-> HIGH_RISK, warnings |-> <<"CRITICAL: Radius of Curvature is too tight for width">>]
  ELSE IF Lt(m.sinuosityIndex, Frac(12, 10))
  THEN [health |-> DEGRADED, warnings |-> <<"Channel is straightened. Low habitat diversity.">>]
  ELSE IF Gt(m.sinuosityIndex, Frac(12, 10)) /\ Lt(m.sinuosityIndex, Frac(15, 10))
  THEN [health |-> RECOVERING, warnings |-> <<>>]
  ELSE [health |-> STABLE, warnings |-> <<>>]
\* let hyporheic = "Low"; > 1.3 "Medium"; > 1.5 "High"
hyporheicOf(m) ==
  IF Gt(m.sinuosityIndex, Frac(15, 10)) THEN "High"
  ELSE IF Gt(m.sinuosityIndex, Frac(13, 10)) THEN "Medium"
  ELSE "Low"
\* the stress ratio upside down: the reference shear stress over the new one
stressRatioInverted(m, p) ==
  IF Gt(m.originalSlope, Zero)
  THEN Div(Mul(Mul(Mul(Num(1000), g),
                   Div(Mul(p.bankfullWidth, p.bankfullDepth),
                       Add(p.bankfullWidth, Mul(Num(2), p.bankfullDepth)))),
               m.originalSlope),
           m.shearStress)
  ELSE One
\* const stressRatio = metrics.originalSlope > 0 ? metrics.shearStress / (1000 * 9.81 * R * originalSlope) : 1
stressRatioOf(m, p) ==
  IF Gt(m.originalSlope, Zero)
  THEN Div(m.shearStress,
           Mul(Mul(Mul(Num(1000), g),
                   Div(Mul(p.bankfullWidth, p.bankfullDepth),
                       Add(p.bankfullWidth, Mul(Num(2), p.bankfullDepth)))),
               m.originalSlope))
  ELSE One
\* the regime with the two thresholds taken inclusively
sedimentInclusive(stressRatio) ==
  IF Ge(stressRatio, Frac(12, 10)) THEN "Degradation (Scour)"
  ELSE IF Le(stressRatio, Frac(6, 10)) THEN "Aggradation (Deposition)"
  ELSE "Equilibrium"
\* let sediment = "Equilibrium"; > 1.2 "Degradation (Scour)"; < 0.6 "Aggradation (Deposition)"
sedimentOf(stressRatio) ==
  IF Gt(stressRatio, Frac(12, 10)) THEN "Degradation (Scour)"
  ELSE IF Lt(stressRatio, Frac(6, 10)) THEN "Aggradation (Deposition)"
  ELSE "Equilibrium"

\* assessEcologicalHealth(metrics, params), h the outcome of the health chain
assessmentOf(m, p, h) ==
  [stats |-> [habitatUnits |-> MathFloor(Div(m.channelLength, Mul(Num(6), p.bankfullWidth))),
              hyporheicPotential |-> hyporheicOf(m),
              sedimentTransport |-> sedimentOf(stressRatioOf(m, p))],
   health |-> h.health,
   warnings |-> h.warnings]
assessEcologicalHealth(m, p) == assessmentOf(m, p, healthOf(m, p))

\* ------------------------------------------------------------- inputs
ValleyLines ==
  { <<>>,
    <<GeoPoint(0, 0)>>,
    <<GeoPoint(1, 1), GeoPoint(1, 1)>>,
    <<GeoPoint(0, 0), GeoPoint(4, 0)>>,
    <<GeoPoint(0, 0), GeoPoint(4, 3), GeoPoint(8, 6)>>,
    <<GeoPoint(0, 0), GeoPoint(4, 0), GeoPoint(4, 4)>> }
Amplitudes == {Num(0), Num(1), Num(20)}
Wavelengths == {Num(-5), Num(0), Num(5), Num(10), Num(20), Num(100)}
PointsPerWaves == {4, 20}
Widths == {Num(-2), Num(0), Num(4), Num(8)}
Depths == {Num(0), Num(1), Frac(6, 5)}
Roughnesses == {Frac(45, 1000), Frac(1, 10)}
Slopes == {Num(0), Frac(5, 2), Num(4)}
\* literal LineString features handed to calculateHydraulics
Paths ==
  { <<>>,
    << <<Num(0), Num(0)>>, <<Num(4), Num(0)>> >>,
    << <<Num(0), Num(0)>>, <<Num(3), Num(4)>>, <<Num(6), Num(0)>> >>,
    << <<Num(0), Num(0)>>, <<Num(0), Num(12)>>, <<Num(5), Num(0)>> >> }
\* metrics handed to assessEcologicalHealth
Sinuosities ==
  {One, Frac(105, 100), Frac(106, 100), Frac(119, 100), Frac(12, 10), Frac(121, 100),
   Frac(149, 100), Frac(15, 10), Frac(151, 100), Num(2), NaN}
Radii == {Num(-4), Num(0), Num(4), Frac(159, 10), Num(16), Num(100)}
StressFactors == {Frac(1, 2), Frac(6, 10), One, Frac(12, 10), Frac(13, 10)}
AssessWidths == {Num(0), Num(8)}
AssessSlopes == {Num(0), Frac(1, 40)}

\* ------------------------------------------------------------- actions
\* generateMeander(valleyPoints, amplitude, wavelength, pointsPerWave) is entered
\* with fewer than two points: return turf.lineString([])
generateMeanderGuard(vl, amplitude, wavelength, ppw) ==
  /\ Len(vl) < 2
  /\ params' = [params EXCEPT !.valleyLine = vl, !.amplitude = amplitude,
                              !.wavelength = wavelength]
  /\ pointsPerWave' = ppw
  /\ pipeline' = TRUE
  /\ \E early \in {lineString(<<>>)} :
       /\ meanderGeo' = early
       /\ pc' = IF early.ok THEN "gm_returned" ELSE "gm_threw"
  /\ UNCHANGED <<smoothedValley, valleyLength, totalSteps, i, loc, meanderPoints,
                 metrics, ecoHealth>>
\* the call from the idle harness
GenerateMeanderShort ==
  /\ pc = "idle"
  /\ \E vl \in ValleyLines, amplitude \in Amplitudes, wavelength \in Wavelengths,
        ppw \in PointsPerWaves :
       generateMeanderGuard(vl, amplitude, wavelength, ppw)
  /\ UNCHANGED <<harness, app>>

\* generateMeander is entered with two points or more: the smoothed axis, its
\* length, the loop bound, the empty meanderPoints and i = 0
generateMeanderEntry(vl, amplitude, wavelength, ppw) ==
  /\ Len(vl) >= 2
  /\ params' = [params EXCEPT !.valleyLine = vl, !.amplitude = amplitude,
                              !.wavelength = wavelength]
  /\ pointsPerWave' = ppw
  /\ pipeline' = TRUE
  /\ \E rawValleyLine \in {lineString(toCoords(vl))} :
     \E smoothed \in {bezierSpline(rawValleyLine.val)} :
       /\ smoothedValley' = smoothed.val
       /\ valleyLength' = length(smoothed.val)
       /\ totalSteps' = totalStepsOf(valleyLength', wavelength, ppw)
  /\ meanderPoints' = <<>>
  /\ i' = 0
  /\ loc' = NoLoc
  /\ pc' = "gm_loop"
  /\ UNCHANGED <<meanderGeo, metrics, ecoHealth>>
\* the call from the idle harness
GenerateMeanderEnter ==
  /\ pc = "idle"
  /\ \E vl \in ValleyLines, amplitude \in Amplitudes, wavelength \in Wavelengths,
        ppw \in PointsPerWaves :
       generateMeanderEntry(vl, amplitude, wavelength, ppw)
  /\ UNCHANGED <<harness, app>>

\* one iteration of for (let i = 0; i <= totalSteps; i++)
GenerateMeanderStep ==
  /\ pc = "gm_loop"
  /\ Le(Num(i), totalSteps)
  /\ \E body \in {loopBody(i)} :
       /\ loc' = body
       /\ IF body.meanderPoint.ok
          THEN /\ meanderPoints' = Append(meanderPoints, body.meanderPoint.val)
               /\ i' = i + 1
               /\ UNCHANGED <<pc, meanderGeo>>
          ELSE /\ meanderGeo' = body.meanderPoint
               /\ pc' = "gm_threw"
               /\ UNCHANGED <<meanderPoints, i>>
  /\ UNCHANGED <<params, pointsPerWave, smoothedValley, valleyLength, totalSteps,
                 pipeline, metrics, ecoHealth, harness, app>>

\* the loop is left: return turf.lineString(meanderPoints)
GenerateMeanderReturn ==
  /\ pc = "gm_loop"
  /\ ~Le(Num(i), totalSteps)
  /\ \E result \in {lineString(meanderPoints)} :
       /\ meanderGeo' = result
       /\ pc' = IF result.ok THEN "gm_returned" ELSE "gm_threw"
  /\ UNCHANGED <<params, pointsPerWave, smoothedValley, valleyLength, totalSteps, i, loc,
                 meanderPoints, pipeline, metrics, ecoHealth, harness, app>>

\* a call calculateHydraulics(p, path), path the coordinates of the LineString
calculateHydraulicsCall(p, path) ==
  /\ params' = p
  /\ meanderGeo' = Ok(path)
  /\ \E result \in {calculateHydraulics(p, path)} :
       /\ metrics' = result
       /\ pc' = IF result.ok THEN "ch_returned" ELSE "ch_threw"
  /\ UNCHANGED <<pointsPerWave, smoothedValley, valleyLength, totalSteps, i, loc,
                 meanderPoints, ecoHealth>>

\* calculateHydraulics(params, meanderGeo) on the path generateMeander returned
CalculateHydraulicsPipeline ==
  /\ pc = "gm_returned"
  /\ \E w \in Widths, d \in Depths, n \in Roughnesses, slope \in Slopes :
       calculateHydraulicsCall([params EXCEPT !.bankfullWidth = w, !.bankfullDepth = d,
                                              !.manningsN = n, !.valleySlope = slope],
                               meanderGeo.val)
  /\ UNCHANGED <<pipeline, harness, app>>

\* calculateHydraulics(params, meanderGeo) on a LineString feature of the caller
CalculateHydraulicsDirect ==
  /\ pc = "idle"
  /\ \E vl \in ValleyLines, path \in Paths, w \in Widths, d \in Depths, slope \in Slopes :
       calculateHydraulicsCall([params EXCEPT !.valleyLine = vl, !.bankfullWidth = w,
                                              !.bankfullDepth = d, !.valleySlope = slope],
                               path)
  /\ pipeline' = FALSE
  /\ UNCHANGED <<harness, app>>

\* a call assessEcologicalHealth(m, p)
assessCall(m, p) ==
  /\ params' = p
  /\ metrics' = Ok(m)
  /\ ecoHealth' = Ok(assessEcologicalHealth(m, p))
  /\ pc' = "eco_returned"
  /\ UNCHANGED <<pointsPerWave, smoothedValley, valleyLength, totalSteps, i, loc,
                 meanderPoints, meanderGeo>>

\* assessEcologicalHealth(metrics, params) on the metrics calculateHydraulics returned
AssessPipeline ==
  /\ pc = "ch_returned"
  /\ assessCall(metrics.val, params)
  /\ UNCHANGED <<pipeline, harness, app>>

\* HydraulicMetrics of the caller: the given sinuosity, radius and slope, and a
\* shear stress that is factor times the reference rho * g * R * S
callerMetrics(si, rc, slope, factor) ==
  [originalSlope |-> slope,
   newSlope |-> slope,
   sinuosityIndex |-> si,
   originalVelocity |-> One,
   newVelocity |-> One,
   shearStress |-> Mul(factor, shearStressOf(hydraulicRadiusOf(INITIAL_PARAMS.bankfullWidth,
                                                                INITIAL_PARAMS.bankfullDepth),
                                             Frac(1, 40))),
   streamPower |-> One,
   channelLength |-> Num(100),
   valleyLength |-> Num(100),
   radiusOfCurvature |-> rc]

\* assessEcologicalHealth(metrics, params) on metrics of the caller
AssessDirect ==
  /\ pc = "idle"
  /\ \E si \in Sinuosities, rc \in Radii, w \in AssessWidths, slope \in AssessSlopes,
        factor \in StressFactors :
       assessCall(callerMetrics(si, rc, slope, factor), [params EXCEPT !.bankfullWidth = w])
  /\ pipeline' = FALSE
  /\ UNCHANGED <<harness, app>>

Next ==
  \/ GenerateMeanderShort
  \/ GenerateMeanderEnter
  \/ GenerateMeanderStep
  \/ GenerateMeanderReturn
  \/ CalculateHydraulicsPipeline
  \/ CalculateHydraulicsDirect
  \/ AssessPipeline
  \/ AssessDirect

Spec == Init /\ [][Next]_vars

\* ------------------------------------------------------------- a caller that calls again
\* A caller that invokes the three functions one after the other, each time with
\* arguments of its choice or with what the call before returned, and keeps what
\* every invocation was given and returned.
MaxCalls == 3
RepeatValleyLines == { <<GeoPoint(0, 0)>>, <<GeoPoint(0, 0), GeoPoint(4, 0)>> }
RepeatAmplitudes == {Num(1), Num(20)}
RepeatPaths ==
  { << <<Num(0), Num(0)>>, <<Num(4), Num(0)>> >>,
    << <<Num(0), Num(0)>>, <<Num(3), Num(4)>>, <<Num(6), Num(0)>> >> }
RepeatStressFactors == {Frac(1, 2), One}
\* no call is running
Resting == pc \in {"idle", "gm_returned", "gm_threw", "ch_returned", "ch_threw", "eco_returned"}
\* what the last invocation returned or threw
resultOf(fn) ==
  IF fn = "generateMeander" THEN meanderGeo
  ELSE IF fn = "calculateHydraulics" THEN metrics
  ELSE ecoHealth
\* the record of the last invocation, once it is over
completed ==
  IF call.fn = "none" \/ ~Resting THEN <<>>
  ELSE << [fn |-> call.fn, args |-> call.args, result |-> resultOf(call.fn)] >>
\* the caller starts the invocation fn(args)
invoke(fn, args) ==
  /\ calls' = calls + 1
  /\ call' = [fn |-> fn, args |-> args]
  /\ history' = history \o completed
  /\ UNCHANGED app

\* generateMeander(valleyPoints, amplitude, wavelength, pointsPerWave), fewer than two points
RepeatGenerateMeanderShort ==
  /\ Resting
  /\ calls < MaxCalls
  /\ \E vl \in RepeatValleyLines, amplitude \in RepeatAmplitudes :
       /\ generateMeanderGuard(vl, amplitude, Num(10), 4)
       /\ invoke("generateMeander", [valleyPoints |-> vl, amplitude |-> amplitude,
                                     wavelength |-> Num(10), pointsPerWave |-> 4])

\* generateMeander(valleyPoints, amplitude, wavelength, pointsPerWave), two points or more
RepeatGenerateMeanderEnter ==
  /\ Resting
  /\ calls < MaxCalls
  /\ \E vl \in RepeatValleyLines, amplitude \in RepeatAmplitudes :
       /\ generateMeanderEntry(vl, amplitude, Num(10), 4)
       /\ invoke("generateMeander", [valleyPoints |-> vl, amplitude |-> amplitude,
                                     wavelength |-> Num(10), pointsPerWave |-> 4])

\* calculateHydraulics(params, meanderGeo) on a path of the caller or on the path
\* the caller holds from an earlier call
RepeatCalculateHydraulics ==
  /\ Resting
  /\ calls < MaxCalls
  /\ \E vl \in RepeatValleyLines,
        path \in RepeatPaths \cup (IF meanderGeo.ok THEN {meanderGeo.val} ELSE {}) :
     \E p \in {[params EXCEPT !.valleyLine = vl]} :
       /\ calculateHydraulicsCall(p, path)
       /\ invoke("calculateHydraulics", [params |-> p, meanderGeo |-> path])
  /\ pipeline' = FALSE

\* assessEcologicalHealth(metrics, params) on metrics of the caller or on the
\* metrics the caller holds from an earlier call
RepeatAssess ==
  /\ Resting
  /\ calls < MaxCalls
  /\ \E m \in {callerMetrics(Frac(13, 10), Num(100), Frac(1, 40), factor) :
                  factor \in RepeatStressFactors}
              \cup (IF metrics.ok THEN {metrics.val} ELSE {}) :
       /\ assessCall(m, params)
       /\ invoke("assessEcologicalHealth", [metrics |-> m, params |-> params])
  /\ pipeline' = FALSE

NextRepeat ==
  \/ RepeatGenerateMeanderShort
  \/ RepeatGenerateMeanderEnter
  \/ GenerateMeanderStep
  \/ GenerateMeanderReturn
  \/ RepeatCalculateHydraulics
  \/ RepeatAssess

SpecRepeat == Init /\ [][NextRepeat]_vars

\* ------------------------------------------------------------- App: handlers and render
MaxEdits == 3
\* where a click on the map lands
AddPoints == {GeoPoint(12, 9)}
\* where a drag of a marker ends
DragEnds == {GeoPoint(2, 2)}
\* the sliders of Controls and a value each can be set to
Sliders == {"amplitude", "wavelength", "bankfullWidth"}
sliderValues(key) ==
  IF key = "amplitude" THEN {Num(40)}
  ELSE IF key = "wavelength" THEN {Num(50)}
  ELSE {Num(10)}
\* a handler invocation, as kept in sinceRender
edit(op, index, newPt, key, value) ==
  [op |-> op, index |-> index, point |-> newPt, key |-> key, value |-> value,
   before |-> paramsState]
\* setParams on the state cell, with the new params object and the array it holds
setParams(value, lineRef, e) ==
  /\ paramsState' = [value |-> value, ref |-> edits + 1, lineRef |-> lineRef]
  /\ edits' = edits + 1
  /\ sinceRender' = Append(sinceRender, e)
  /\ UNCHANGED <<rendered, memo, lastRender, calling, harness>>
\* const newLine = [...params.valleyLine]; newLine[index] = point
movedLine(valleyLine, index, newPt) == [valleyLine EXCEPT ![index] = newPt]
\* params.valleyLine.filter((_, i) => i !== index)
filteredLine(valleyLine, index) ==
  [k \in 1..(Len(valleyLine) - 1) |-> IF k < index THEN valleyLine[k] ELSE valleyLine[k + 1]]
\* the guard of handlePointDelete let through whatever the line is
deletableAlways(valleyLine) == TRUE
\* if (params.valleyLine.length <= 2) return
deletable(valleyLine) == ~(Len(valleyLine) <= 2)

\* handlePointMove(index, point), called by the marker of the rendered point
\* index at the end of a drag; the drag may end where it began
HandlePointMove ==
  /\ edits < MaxEdits
  /\ \E index \in 1..Len(rendered.value.valleyLine) :
     \E newPt \in DragEnds \cup {rendered.value.valleyLine[index]} :
       setParams([paramsState.value EXCEPT
                    !.valleyLine = movedLine(rendered.value.valleyLine, index, newPt)],
                 edits + 1, edit("move", index, newPt, "", Zero))

\* handlePointAdd(point), called by a click on the map
HandlePointAdd ==
  /\ edits < MaxEdits
  /\ \E newPt \in AddPoints :
       setParams([paramsState.value EXCEPT !.valleyLine = Append(@, newPt)],
                 edits + 1, edit("add", 0, newPt, "", Zero))

\* handlePointDelete(index), called by a right click on the marker of the
\* rendered point index, when the guard lets it through
HandlePointDelete ==
  /\ edits < MaxEdits
  /\ deletable(rendered.value.valleyLine)
  /\ \E index \in 1..Len(rendered.value.valleyLine) :
       setParams([paramsState.value EXCEPT
                    !.valleyLine = filteredLine(rendered.value.valleyLine, index)],
                 edits + 1, edit("delete", index, Zero, "", Zero))

\* handlePointDelete(index) returning at its guard
HandlePointDeleteReturn ==
  /\ edits < MaxEdits
  /\ ~deletable(rendered.value.valleyLine)
  /\ \E index \in 1..Len(rendered.value.valleyLine) :
       /\ edits' = edits + 1
       /\ sinceRender' = Append(sinceRender, edit("delete", index, Zero, "", Zero))
       /\ UNCHANGED <<paramsState, rendered, memo, lastRender, calling, harness>>

\* Controls' handleChange(key, value): onChange({ ...params, [key]: value }) with
\* the params prop of the last render, onChange being setParams
ControlsHandleChange ==
  /\ edits < MaxEdits
  /\ \E key \in Sliders :
     \E value \in sliderValues(key) :
       setParams([rendered.value EXCEPT ![key] = value], rendered.lineRef,
                 edit("change", 0, Zero, key, value))

\* React renders App again after a state update: the handlers and Controls get
\* the new params, and the three useMemo calls run
Render ==
  /\ paramsState.ref # rendered.ref
  /\ rendered' = paramsState
  /\ memo' = renderMemo(memo, paramsState)
  /\ sinceRender' = <<>>
  /\ lastRender' = [previous |-> rendered, meanderGeoRef |-> memo.meanderGeo.ref]
  /\ UNCHANGED <<paramsState, edits, calling, harness>>

NextApp ==
  \/ HandlePointMove
  \/ HandlePointAdd
  \/ HandlePointDelete
  \/ HandlePointDeleteReturn
  \/ ControlsHandleChange
  \/ Render

SpecApp == Init /\ [][NextApp]_vars

\* ------------------------------------------------------------- properties
\* the states in which metrics is what calculateHydraulics returned
HydraulicsReturned == metrics.ok /\ meanderGeo.ok
\* the states of a generateMeander call that got past the length guard
InMeander == pipeline /\ Len(params.valleyLine) >= 2 /\ pc # "idle"
\* the states in which generateMeander has returned a path
MeanderReturned == InMeander /\ meanderGeo.ok
\* the states in which loc holds the locals of an iteration that has run
StepTaken == InMeander /\ loc # NoLoc

\* C1: whenever calculateHydraulics returns, sinuosityIndex >= 1; it is exactly 1
\* when valleyLength is 0 or channelLength <= valleyLength, and it is
\* channelLength / valleyLength otherwise.
C1_SinuosityAtLeastOne ==
  HydraulicsReturned =>
    /\ Ge(metrics.val.sinuosityIndex, One)
    /\ IF metrics.val.valleyLength = Zero
          \/ Le(metrics.val.channelLength, metrics.val.valleyLength)
       THEN metrics.val.sinuosityIndex = One
       ELSE metrics.val.sinuosityIndex
              = Div(metrics.val.channelLength, metrics.val.valleyLength)
\* calculateHydraulics has returned a sinuosity above 1 for a generated path that
\* is longer than the valley line
C1_Witness ==
  /\ HydraulicsReturned
  /\ pipeline
  /\ Gt(metrics.val.sinuosityIndex, One)
  /\ Gt(metrics.val.channelLength, metrics.val.valleyLength)
  /\ Gt(metrics.val.valleyLength, Zero)

\* the avulsion rule of the health classification, from the metrics and params
TightBend ==
  /\ Lt(Div(metrics.val.radiusOfCurvature, params.bankfullWidth), Num(2))
  /\ Gt(metrics.val.sinuosityIndex, Frac(105, 100))
\* C2: with bankfullWidth > 0 the health is classified by the first matching
\* rule: HighRisk iff Rc / width < 2 and sinuosity > 1.05; else Degraded iff
\* sinuosity < 1.2; else Recovering iff 1.2 < sinuosity < 1.5; else Stable.  A
\* sinuosity <= 1.05 never gives HighRisk.
C2_HealthByFirstRule ==
  (ecoHealth.ok /\ Gt(params.bankfullWidth, Zero)) =>
    /\ ecoHealth.val.health = HIGH_RISK <=> TightBend
    /\ ecoHealth.val.health = DEGRADED
         <=> (~TightBend /\ Lt(metrics.val.sinuosityIndex, Frac(12, 10)))
    /\ ecoHealth.val.health = RECOVERING
         <=> (/\ ~TightBend
              /\ Gt(metrics.val.sinuosityIndex, Frac(12, 10))
              /\ Lt(metrics.val.sinuosityIndex, Frac(15, 10)))
    /\ ecoHealth.val.health = STABLE
         <=> (/\ ~TightBend
              /\ ~Lt(metrics.val.sinuosityIndex, Frac(12, 10))
              /\ ~(/\ Gt(metrics.val.sinuosityIndex, Frac(12, 10))
                   /\ Lt(metrics.val.sinuosityIndex, Frac(15, 10))))
    /\ Le(metrics.val.sinuosityIndex, Frac(105, 100)) => ecoHealth.val.health # HIGH_RISK
\* a tight bend on a channel below sinuosity 1.2 was classified HighRisk, not Degraded
C2_Witness ==
  /\ ecoHealth.ok
  /\ Gt(params.bankfullWidth, Zero)
  /\ TightBend
  /\ Lt(metrics.val.sinuosityIndex, Frac(12, 10))
  /\ ecoHealth.val.health = HIGH_RISK

\* C3: generateMeander on a valley line of fewer than 2 points returns an empty
\* path as a normal result and raises no error.
C3_ShortLineReturnsEmptyPath ==
  (pipeline /\ Len(params.valleyLine) < 2 /\ pc # "idle") =>
    /\ pc # "gm_threw"
    /\ meanderGeo.ok
    /\ meanderGeo.val = <<>>

\* C4: on a valley line of fewer than 2 points, calculateHydraulics on the empty
\* meander path completes and reports channelLength 0 and sinuosityIndex 1.
C4_EmptyPathHydraulics ==
  (/\ Len(params.valleyLine) < 2
   /\ pc \in {"ch_returned", "ch_threw"}
   /\ meanderGeo = Ok(<<>>)) =>
    /\ metrics.ok
    /\ metrics.val.channelLength = Zero
    /\ metrics.val.sinuosityIndex = One

\* C5: with bankfullWidth <= 0 or bankfullDepth <= 0 calculateHydraulics raises a
\* validation error, and it never returns metrics whose velocity, shear stress
\* or stream power is NaN or infinite.
C5_NonPositiveSectionRejected ==
  /\ (/\ pc \in {"ch_returned", "ch_threw"}
      /\ meanderGeo.ok
      /\ Le(params.bankfullWidth, Zero) \/ Le(params.bankfullDepth, Zero)) => ~metrics.ok
  /\ HydraulicsReturned =>
       /\ IsFinite(metrics.val.originalVelocity)
       /\ IsFinite(metrics.val.newVelocity)
       /\ IsFinite(metrics.val.shearStress)
       /\ IsFinite(metrics.val.streamPower)

\* C6: when the smoothed axis has length 0, so that totalSteps = 0, the fraction
\* of the single step is 0 and generateMeander returns a path of exactly one
\* point, the axis start.
C6_ZeroStepsSinglePoint ==
  (InMeander /\ valleyLength = Zero /\ totalSteps = Zero) =>
    /\ StepTaken => loc.fraction = Zero
    /\ pc # "gm_threw"
    /\ pc # "gm_loop" => (meanderGeo.ok /\ meanderGeo.val = <<smoothedValley[1]>>)

\* max(wavelength, 10), written out
EffectiveWavelength ==
  IF Lt(params.wavelength, Num(10)) THEN Num(10) ELSE params.wavelength
\* C7: for every wavelength, generateMeander uses max(wavelength, 10) for the
\* step count and for the phase of the sinusoid: totalSteps is
\* ceil(axisLength / effectiveWavelength * pointsPerWave), finite and at most
\* ceil(axisLength / 10 * pointsPerWave), and a returned path has totalSteps + 1
\* points.
C7_EffectiveWavelength ==
  InMeander =>
    /\ totalSteps = MathCeil(Mul(Div(valleyLength, EffectiveWavelength), Num(pointsPerWave)))
    /\ IsFinite(totalSteps)
    /\ Le(totalSteps, MathCeil(Mul(Div(valleyLength, Num(10)), Num(pointsPerWave))))
    /\ StepTaken =>
         loc.offset = Mul(loc.currentAmplitude,
                          SinPi(Mul(Div(Num(2), EffectiveWavelength), loc.distanceAlongValley)))
    /\ MeanderReturned => Num(Len(meanderGeo.val)) = Add(totalSteps, One)
\* a path of more than five points was returned for a wavelength of 0 or below,
\* with a point off the sampled axis
C7_Witness ==
  /\ MeanderReturned
  /\ pc = "gm_returned"
  /\ Le(params.wavelength, Zero)
  /\ Gt(totalSteps, Num(4))
  /\ \E k \in 1..Len(meanderGeo.val) : meanderGeo.val[k] \notin
       {smoothedValley[s] : s \in 1..Len(smoothedValley)}

\* C8: with amplitude 0 every point pushed is the axis point of its iteration,
\* and calculateHydraulics on the returned path reports sinuosityIndex 1.
C8_ZeroAmplitudeIsAxis ==
  (InMeander /\ params.amplitude = Zero) =>
    /\ (StepTaken /\ loc.meanderPoint.ok) => loc.meanderPoint.val = loc.centerPoint.val
    /\ HydraulicsReturned => metrics.val.sinuosityIndex = One

\* C9: the first and the last point of a returned path have lateral offset 0 and
\* are the first and the last point of the smoothed valley axis.
C9_EndsOnAxis ==
  /\ (StepTaken /\ (loc.fraction = Zero \/ loc.fraction = One)) => loc.offset = Zero
  /\ MeanderReturned =>
       /\ meanderGeo.val[1] = smoothedValley[1]
       /\ meanderGeo.val[Len(meanderGeo.val)] = smoothedValley[Len(smoothedValley)]

\* C10: with valleySlope >= 0, bankfullWidth > 0, bankfullDepth > 0 and
\* manningsN > 0, calculateHydraulics returns newSlope = originalSlope /
\* sinuosityIndex, newSlope <= originalSlope, and newVelocity <= originalVelocity
\* when sinuosityIndex > 1.
C10_SlopeAndVelocityFall ==
  (/\ HydraulicsReturned
   /\ Ge(params.valleySlope, Zero)
   /\ Gt(params.bankfullWidth, Zero)
   /\ Gt(params.bankfullDepth, Zero)
   /\ Gt(params.manningsN, Zero)) =>
    /\ metrics.val.originalSlope = Div(params.valleySlope, Num(100))
    /\ metrics.val.newSlope = Div(metrics.val.originalSlope, metrics.val.sinuosityIndex)
    /\ Le(metrics.val.newSlope, metrics.val.originalSlope)
    /\ Gt(metrics.val.sinuosityIndex, One) =>
         Le(metrics.val.newVelocity, metrics.val.originalVelocity)
\* a generated path longer than the valley line lowered the slope and the velocity
C10_Witness ==
  /\ HydraulicsReturned
  /\ pipeline
  /\ Gt(params.valleySlope, Zero)
  /\ Gt(params.bankfullWidth, Zero)
  /\ Gt(params.bankfullDepth, Zero)
  /\ Gt(metrics.val.sinuosityIndex, One)
  /\ Lt(metrics.val.newSlope, metrics.val.originalSlope)
  /\ Lt(metrics.val.newVelocity, metrics.val.originalVelocity)

\* the stress ratio as the assessment is said to form it: the shear stress of the
\* metrics over rho * g * R * originalSlope, and 1 on an original slope of 0
StatedStressRatio ==
  IF metrics.val.originalSlope = Zero THEN One
  ELSE Div(metrics.val.shearStress,
           Mul(Mul(Mul(Num(rho), g),
                   hydraulicRadiusOf(params.bankfullWidth, params.bankfullDepth)),
               metrics.val.originalSlope))
\* C11: the sediment regime follows the stress ratio shearStress / (rho * g * R *
\* originalSlope), taken as 1 when originalSlope is 0: Aggradation iff the ratio
\* is < 0.6, Degradation iff it is > 1.2, Equilibrium otherwise, which includes
\* the ratios 0.6 and 1.2 themselves.
C11_SedimentByStressRatio ==
  ecoHealth.ok =>
    /\ ecoHealth.val.stats.sedimentTransport = "Aggradation (Deposition)"
         <=> Lt(StatedStressRatio, Frac(6, 10))
    /\ ecoHealth.val.stats.sedimentTransport = "Degradation (Scour)"
         <=> Gt(StatedStressRatio, Frac(12, 10))
    /\ ecoHealth.val.stats.sedimentTransport = "Equilibrium"
         <=> (/\ ~Lt(StatedStressRatio, Frac(6, 10))
              /\ ~Gt(StatedStressRatio, Frac(12, 10)))
    /\ StatedStressRatio \in {Frac(6, 10), Frac(12, 10)}
         => ecoHealth.val.stats.sedimentTransport = "Equilibrium"
\* an assessment at a stress ratio of exactly 0.6 came out as Equilibrium
C11_Witness ==
  /\ ecoHealth.ok
  /\ Gt(metrics.val.originalSlope, Zero)
  /\ StatedStressRatio = Frac(6, 10)
  /\ ecoHealth.val.stats.sedimentTransport = "Equilibrium"

\* C12: with bankfullWidth 0 the curvature ratio is not formed by dividing by the
\* width, and the health is never HighRisk, whatever the radius of curvature and
\* the sinuosity are.
C12_ZeroWidthNeverHighRisk ==
  (ecoHealth.ok /\ params.bankfullWidth = Zero) =>
    /\ ecoHealth.val.health # HIGH_RISK
    /\ ecoHealth.val.warnings # <<"CRITICAL: Radius of Curvature is too tight for width">>
\* a width of 0 was assessed on a sinuosity above 1.05 and a radius whose quotient
\* by the width would be below 2
C12_Witness ==
  /\ ecoHealth.ok
  /\ params.bankfullWidth = Zero
  /\ Gt(metrics.val.sinuosityIndex, Frac(105, 100))
  /\ Lt(Div(metrics.val.radiusOfCurvature, params.bankfullWidth), Num(2))
  /\ ecoHealth.val.health # HIGH_RISK

\* C18: where HighRisk does not fire, a sinuosity of exactly 1.2 and one of
\* exactly 1.5 are classed Stable, while every sinuosity strictly between 1.2 and
\* 1.5 is classed Recovering: the class is not monotone in the sinuosity.
C18_BandEndsAreStable ==
  (ecoHealth.ok /\ ecoHealth.val.health # HIGH_RISK) =>
    /\ metrics.val.sinuosityIndex = Frac(12, 10) => ecoHealth.val.health = STABLE
    /\ metrics.val.sinuosityIndex = Frac(15, 10) => ecoHealth.val.health = STABLE
    /\ (/\ Gt(metrics.val.sinuosityIndex, Frac(12, 10))
        /\ Lt(metrics.val.sinuosityIndex, Frac(15, 10)))
         => ecoHealth.val.health = RECOVERING
\* a sinuosity of exactly 1.2 was assessed off the avulsion rule and came out Stable
C18_Witness ==
  /\ ecoHealth.ok
  /\ metrics.val.sinuosityIndex = Frac(12, 10)
  /\ ecoHealth.val.health = STABLE

\* C19: the warnings hold exactly one entry when the health is HighRisk or
\* Degraded and none when it is Recovering or Stable; never more than one.
C19_OneWarningAtMost ==
  ecoHealth.ok =>
    /\ ecoHealth.val.health \in {HIGH_RISK, DEGRADED} => Len(ecoHealth.val.warnings) = 1
    /\ ecoHealth.val.health \in {RECOVERING, STABLE} => ecoHealth.val.warnings = <<>>
    /\ Len(ecoHealth.val.warnings) <= 1
\* a tight bend on a sinuosity below 1.2, which meets the avulsion rule and the
\* straightened-channel rule at once, was assessed with one warning
C19_Witness ==
  /\ ecoHealth.ok
  /\ ecoHealth.val.health = HIGH_RISK
  /\ Lt(metrics.val.sinuosityIndex, Frac(12, 10))
  /\ Len(ecoHealth.val.warnings) = 1

\* the states in which the assessment was made of the metrics calculateHydraulics
\* returned for the same params
AssessedPipeline == ecoHealth.ok /\ HydraulicsReturned
\* C16: an assessment of the metrics calculateHydraulics produced from the same
\* params never reports Degradation, and reports Aggradation exactly when the
\* sinuosity index is above 1 / 0.6.
C16_NeverDegradation ==
  AssessedPipeline =>
    /\ ecoHealth.val.stats.sedimentTransport # "Degradation (Scour)"
    /\ ecoHealth.val.stats.sedimentTransport = "Aggradation (Deposition)"
         <=> Gt(metrics.val.sinuosityIndex, Div(One, Frac(6, 10)))
\* the params are a channel on a slope: positive valley slope, width and depth
SlopingChannel ==
  /\ Gt(params.valleySlope, Zero)
  /\ Gt(params.bankfullWidth, Zero)
  /\ Gt(params.bankfullDepth, Zero)
\* C16, amended: an assessment of the metrics calculateHydraulics produced from
\* the same params never reports Degradation; on a positive valley slope, width
\* and depth it reports Aggradation exactly when the sinuosity index is above
\* 1 / 0.6, and on a valley slope of 0 it reports Equilibrium whatever the
\* sinuosity is.
C16_AggradationOnSlope ==
  AssessedPipeline =>
    /\ ecoHealth.val.stats.sedimentTransport # "Degradation (Scour)"
    /\ SlopingChannel =>
         (ecoHealth.val.stats.sedimentTransport = "Aggradation (Deposition)"
            <=> Gt(metrics.val.sinuosityIndex, Div(One, Frac(6, 10))))
    /\ params.valleySlope = Zero => ecoHealth.val.stats.sedimentTransport = "Equilibrium"
\* a sloping channel of sinuosity above 1 / 0.6 was assessed as Aggradation, and
\* the path was generated by generateMeander
C16_Witness ==
  /\ AssessedPipeline
  /\ pipeline
  /\ SlopingChannel
  /\ Gt(metrics.val.sinuosityIndex, Div(One, Frac(6, 10)))
  /\ ecoHealth.val.stats.sedimentTransport = "Aggradation (Deposition)"

\* every invocation of the caller that is over, in the order they were made
Invocations == history \o completed
\* the arguments of the running or last invocation as the function holds them
argumentsNow ==
  IF call.fn = "generateMeander"
  THEN [valleyPoints |-> params.valleyLine, amplitude |-> params.amplitude,
        wavelength |-> params.wavelength, pointsPerWave |-> pointsPerWave]
  ELSE IF call.fn = "calculateHydraulics"
  THEN [params |-> params, meanderGeo |-> meanderGeo.val]
  ELSE [metrics |-> metrics.val, params |-> params]
\* C13: generateMeander, calculateHydraulics and assessEcologicalHealth are
\* deterministic and stateless: two invocations of one function with equal
\* arguments give equal results (or the same exception) whatever was invoked
\* before or in between, and no invocation changes the params, the valley line
\* or the meander path it was given.
C13_DeterministicStateless ==
  /\ \A a \in 1..Len(Invocations), b \in 1..Len(Invocations) :
       (Invocations[a].fn = Invocations[b].fn /\ Invocations[a].args = Invocations[b].args)
         => Invocations[a].result = Invocations[b].result
  /\ call.fn # "none" => argumentsNow = call.args
\* generateMeander returned a path, something else was invoked, and generateMeander
\* was invoked again with the arguments of the first time
C13_Witness ==
  /\ Len(Invocations) = 3
  /\ Invocations[1].fn = "generateMeander"
  /\ Invocations[3].fn = "generateMeander"
  /\ Invocations[1].args = Invocations[3].args
  /\ Invocations[2].fn = "generateMeander" => Invocations[2].args # Invocations[1].args
  /\ Invocations[3].result.ok

\* rendering has settled: no state update waits for a render
Settled == paramsState.ref = rendered.ref
\* C14: once rendering has settled after any sequence of edits, the memoized
\* meander path, metrics and assessment are what the pipeline computes from the
\* current params, and a render computes the meander path anew only when the
\* valley line was replaced or the amplitude or the wavelength has changed since
\* the render before.
C14_MemoFresh ==
  Settled =>
    /\ memo.meanderGeo.value
         = [fn |-> "generateMeander", valleyPoints |-> paramsState.value.valleyLine,
            amplitude |-> paramsState.value.amplitude,
            wavelength |-> paramsState.value.wavelength]
    /\ memo.metrics.value
         = [fn |-> "calculateHydraulics", params |-> paramsState.value,
            meanderGeo |-> memo.meanderGeo.value]
    /\ memo.ecoHealth.value
         = [fn |-> "assessEcologicalHealth", metrics |-> memo.metrics.value,
            params |-> paramsState.value]
    /\ memo.meanderGeo.ref # lastRender.meanderGeoRef =>
         \/ rendered.lineRef # lastRender.previous.lineRef
         \/ rendered.value.amplitude # lastRender.previous.value.amplitude
         \/ rendered.value.wavelength # lastRender.previous.value.wavelength
\* a render after a change of the width alone kept the meander path and computed
\* the metrics and the assessment anew
C14_Witness ==
  /\ Settled
  /\ edits > 0
  /\ rendered.value.bankfullWidth # lastRender.previous.value.bankfullWidth
  /\ memo.meanderGeo.ref = lastRender.meanderGeoRef
  /\ memo.metrics.ref = rendered.ref
  /\ memo.ecoHealth.ref = rendered.ref

\* the last handler invoked since the last render
LastEdit == sinceRender[Len(sinceRender)]
\* C15: from INITIAL_PARAMS on, after any sequence of point edits and slider
\* changes, params.valleyLine has at least 2 points; handlePointDelete changes
\* nothing when the line has 2 points or fewer, and otherwise the line becomes
\* the line it was called on without the point at the given index.
C15_AtLeastTwoPoints ==
  /\ Len(paramsState.value.valleyLine) >= 2
  /\ Len(rendered.value.valleyLine) >= 2
  /\ (sinceRender # <<>> /\ LastEdit.op = "delete") =>
       IF Len(rendered.value.valleyLine) <= 2
       THEN paramsState = LastEdit.before
       ELSE /\ Len(paramsState.value.valleyLine) = Len(rendered.value.valleyLine) - 1
            /\ \A k \in 1..Len(paramsState.value.valleyLine) :
                 paramsState.value.valleyLine[k]
                   = rendered.value.valleyLine[IF k < LastEdit.index THEN k ELSE k + 1]
\* handlePointDelete was called on a line of 2 points and changed nothing
C15_Witness ==
  /\ sinceRender # <<>>
  /\ LastEdit.op = "delete"
  /\ Len(rendered.value.valleyLine) = 2
  /\ paramsState = LastEdit.before
  /\ Len(paramsState.value.valleyLine) = 2

\* C17: no edit is lost: when handlers are invoked against the same render
\* before React renders again, the params reflect all of them: a point appended
\* by handlePointAdd is still in the valley line, and a slider holds the value it
\* was last set to.
C17_NoEditLost ==
  \A k \in 1..Len(sinceRender) :
    /\ sinceRender[k].op = "add" =>
         \E j \in 1..Len(paramsState.value.valleyLine) :
           paramsState.value.valleyLine[j] = sinceRender[k].point
    /\ (/\ sinceRender[k].op = "change"
        /\ \A later \in (k + 1)..Len(sinceRender) :
             ~(sinceRender[later].op = "change" /\ sinceRender[later].key = sinceRender[k].key))
         => paramsState.value[sinceRender[k].key] = sinceRender[k].value

====
